---- MODULE Spec2Model ----
(***************************************************************************)
(* Model of notebooks/retail_etl.py: the retail ETL script.  The script    *)
(* is one straight line of statements; every Spark DataFrame it names is a *)
(* lazy plan that is evaluated again by each job (count, collect, write)   *)
(* that uses it, and dropDuplicates keeps an engine-chosen row per key, so *)
(* each job sees its own materialisation of df_cleaned.                    *)
(***************************************************************************)
EXTENDS Integers, Sequences, FiniteSets, TLC

VARIABLES pc, failedAt, spark, bucket, excel_data, df_combined, df_raw,
          evalC, max_date, store, written, summary, reported, run, prev

vars == <<pc, failedAt, spark, bucket, excel_data, df_combined, df_raw,
          evalC, max_date, store, written, summary, reported, run, prev>>

\* ------------------------------------------------------------------ bounds
\* Largest number of rows in the workbook (both sheets together).
MaxRows == 3
\* Largest number of times the script is launched on the same workbook.
MaxRuns == 2

\* ----------------------------------------------------------- column values
\* A nullable cell: <<>> is NULL (None / NaN / NaT), <<v>> holds the value v.
None == <<>>
Some(v) == <<v>>
IsNull(c) == c = None
Val(c) == c[1]

\* ---------------------------------------------------------------- calendar
\* Proleptic Gregorian calendar, as used by Spark's timestamp functions.
\* A timestamp is a whole number of hours since 1970-01-01 00:00.
IsLeap(y) == (y % 4 = 0 /\ y % 100 # 0) \/ y % 400 = 0

DaysInMonth(y, m) ==
    IF m = 2 THEN (IF IsLeap(y) THEN 29 ELSE 28)
    ELSE IF m \in {4, 6, 9, 11} THEN 30 ELSE 31

DaysFromCivil(y, m, d) ==
    LET yy  == IF m <= 2 THEN y - 1 ELSE y
        era == yy \div 400
        yoe == yy - era * 400
        mp  == IF m > 2 THEN m - 3 ELSE m + 9
        doy == (153 * mp + 2) \div 5 + d - 1
        doe == yoe * 365 + yoe \div 4 - yoe \div 100 + doy
    IN  era * 146097 + doe - 719468

CivilFromDays(z0) ==
    LET z   == z0 + 719468
        era == z \div 146097
        doe == z - era * 146097
        yoe == (doe - doe \div 1460 + doe \div 36524 - doe \div 146096) \div 365
        doy == doe - (365 * yoe + yoe \div 4 - yoe \div 100)
        mp  == (5 * doy + 2) \div 153
        d   == doy - (153 * mp + 2) \div 5 + 1
        m   == IF mp < 10 THEN mp + 3 ELSE mp - 9
        y   == yoe + era * 400 + (IF m <= 2 THEN 1 ELSE 0)
    IN  [y |-> y, m |-> m, d |-> d]

HoursPerDay == 24

\* to_timestamp(col("InvoiceDate")): the cell's text is the field list
\* <<year, month, day>> or <<year, month, day, hour>>; anything that is not
\* a calendar date and hour parses to NULL (the row is kept).
to_timestamp(c) ==
    IF IsNull(c) THEN None
    ELSE LET t == Val(c)
         IN  IF /\ Len(t) \in {3, 4}
                /\ t[1] \in 1..9999
                /\ t[2] \in 1..12
                /\ t[3] \in 1..DaysInMonth(t[1], t[2])
                /\ (Len(t) = 4 => t[4] \in 0..(HoursPerDay - 1))
             THEN Some(DaysFromCivil(t[1], t[2], t[3]) * HoursPerDay
                       + (IF Len(t) = 4 THEN t[4] ELSE 0))
             ELSE None

DayOf(ts) == ts \div HoursPerDay

year(c)    == IF IsNull(c) THEN None ELSE Some(CivilFromDays(DayOf(Val(c))).y)
month(c)   == IF IsNull(c) THEN None ELSE Some(CivilFromDays(DayOf(Val(c))).m)
quarter(c) == IF IsNull(c) THEN None
              ELSE Some((CivilFromDays(DayOf(Val(c))).m - 1) \div 3 + 1)
hour(c)    == IF IsNull(c) THEN None ELSE Some(Val(c) % HoursPerDay)

DayNames == <<"Sunday", "Monday", "Tuesday", "Wednesday", "Thursday",
              "Friday", "Saturday">>
MonthNames == <<"January", "February", "March", "April", "May", "June",
                "July", "August", "September", "October", "November",
                "December">>

\* date_format(ts, "EEEE"): 1970-01-01 was a Thursday.
DayName(c) == IF IsNull(c) THEN None
              ELSE Some(DayNames[((DayOf(Val(c)) + 4) % 7) + 1])
\* date_format(ts, "MMMM")
MonthName(c) == IF IsNull(c) THEN None
                ELSE Some(MonthNames[CivilFromDays(DayOf(Val(c))).m])

\* The two dates taken in the other order.
datediffSwapped(e, s) == IF IsNull(e) \/ IsNull(s) THEN None
                         ELSE Some(DayOf(Val(s)) - DayOf(Val(e)))

\* datediff(end, start): whole days between the two dates, NULL if either is.
datediff(e, s) == IF IsNull(e) \/ IsNull(s) THEN None
                  ELSE Some(DayOf(Val(e)) - DayOf(Val(s)))

\* round(Quantity * Price, 2), HALF_UP.  Price is held in thousandths of a
\* currency unit and the result in hundredths.
TotalAmountOf(q, p) ==
    IF IsNull(q) \/ IsNull(p) THEN None
    ELSE LET x == Val(q) * Val(p)
         IN  Some(IF x >= 0 THEN (x + 5) \div 10 ELSE -((-x + 5) \div 10))

\* ------------------------------------------------------------------ inputs
\* One spreadsheet row: the eight columns of the workbook's sheets.
RawRow(inv, sc, desc, q, p, d, cust, country) ==
    [Invoice |-> inv, StockCode |-> sc, Description |-> desc, Quantity |-> q,
     Price |-> p, InvoiceDate |-> d, CustomerID |-> cust, Country |-> country]

\* The rows sheet 'Year 2009-2010' is drawn from: a transaction line, a
\* return, a free item, a row with missing cells, and an anonymous line
\* whose date is no date.
Pool2009 ==
    { RawRow(Some("A1"), Some("X"), Some("MUG"), Some(1), Some(3000),
             Some(<<2010, 12, 1, 8>>), Some("C1"), Some("UK")),
      RawRow(Some("A3"), Some("X"), Some("MUG"), Some(-5), Some(3000),
             Some(<<2010, 12, 1, 8>>), Some("C1"), Some("UK")),
      RawRow(Some("A4"), Some("Y"), Some("PEN"), Some(1), Some(0),
             Some(<<2010, 12, 9, 20>>), Some("C2"), Some("UK")),
      RawRow(None, Some("X"), None, Some(1), None,
             Some(<<2010, 12, 1, 8>>), None, Some("UK")),
      RawRow(Some("A5"), Some("X"), Some("MUG"), Some(1), Some(2000),
             Some(<<2010, 2, 30, 8>>), None, Some("FR")) }

\* The rows sheet 'Year 2010-2011' is drawn from: a line with the key of
\* the other sheet's line A1/X (the periods overlap) but another quantity,
\* customer and country; one line written with two date texts; and a
\* second line of that invoice.
Pool2010 ==
    { RawRow(Some("A1"), Some("X"), Some("MUG"), Some(2), Some(3000),
             Some(<<2010, 12, 1, 8>>), Some("C2"), Some("FR")),
      RawRow(Some("A2"), Some("Y"), Some("PEN"), Some(3), Some(1255),
             Some(<<2011, 1, 15>>), Some("C1"), Some("UK")),
      RawRow(Some("A2"), Some("Y"), Some("PEN"), Some(3), Some(1255),
             Some(<<2011, 1, 15, 0>>), Some("C1"), Some("UK")),
      RawRow(Some("A2"), Some("Z"), Some("CUP"), Some(2), Some(1000),
             Some(<<2011, 1, 15, 0>>), Some("C1"), Some("UK")) }

SheetsUpTo(pool, n) == UNION { [1..k -> pool] : k \in 0..n }

\* The workbooks the bucket may hold: two sheets, MaxRows rows at most.
Workbooks ==
    UNION { { [s2009 |-> a, s2010 |-> b] :
                a \in [1..k -> Pool2009], b \in SheetsUpTo(Pool2010, MaxRows - k) } :
            k \in 0..MaxRows }

\* --------------------------------------------------------- step 3: pandas
\* df['fiscal_year'] = label
Stamp(sheet, label) ==
    [i \in 1..Len(sheet) |-> sheet[i] @@ [fiscal_year |-> Some(label)]]

\* pd.concat([df_2009, df_2010], ignore_index=True)
Combine(w) == Stamp(w.s2009, "2009-2010") \o Stamp(w.s2010, "2010-2011")

\* -------------------------------------------------------- step 5: cleaning
\* .dropna(subset=["Invoice", "StockCode", "Quantity", "Price"])
dropna(r) ==
    ~IsNull(r.Invoice) /\ ~IsNull(r.StockCode) /\ ~IsNull(r.Quantity)
        /\ ~IsNull(r.Price)

\* .filter(col("Quantity") > 0): a NULL comparison filters the row out.
QuantityPositive(r) == ~IsNull(r.Quantity) /\ Val(r.Quantity) > 0

\* A filter that lets free items through (>= for >).
PriceNotNegative(r) == ~IsNull(r.Price) /\ Val(r.Price) >= 0

\* .filter(col("Price") > 0)
PricePositive(r) == ~IsNull(r.Price) /\ Val(r.Price) > 0

\* .withColumn("InvoiceDate", ...).withColumn("TotalAmount", ...)
WithColumns(r) ==
    [r EXCEPT !.InvoiceDate = to_timestamp(@)]
        @@ [TotalAmount |-> TotalAmountOf(r.Quantity, r.Price)]

\* The rows that reach dropDuplicates, in df_raw's order.
Prepared(raw) ==
    LET kept == SelectSeq(raw, LAMBDA r :
                    dropna(r) /\ QuantityPositive(r) /\ PricePositive(r))
    IN  [i \in 1..Len(kept) |-> WithColumns(kept[i])]

KeyOf(r) == <<r.Invoice, r.StockCode, r.InvoiceDate>>

\* A deduplication that takes each column's value from whichever colliding
\* row it meets first for that column, so the Quantity may be another row's.
dropDuplicatesPerColumn(rows) ==
    LET idx  == 1..Len(rows)
        keys == { <<rows[i].Invoice, rows[i].StockCode, rows[i].InvoiceDate>> :
                  i \in idx }
        same(i, k) == <<rows[i].Invoice, rows[i].StockCode,
                        rows[i].InvoiceDate>> = k
        pick == { f \in [keys -> idx] : \A k \in keys : same(f[k], k) }
    IN  { { [rows[f[k]] EXCEPT !.Quantity = rows[g[k]].Quantity] : k \in keys } :
          f \in pick, g \in pick }

\* .dropDuplicates(["Invoice", "StockCode", "InvoiceDate"]): one whole row
\* per key, NULLs in the key comparing equal; which row is the engine's
\* choice, made again by every job.  The set of tables a job may see.
dropDuplicates(rows) ==
    LET idx  == 1..Len(rows)
        keys == { KeyOf(rows[i]) : i \in idx }
        pick == { f \in [keys -> idx] : \A k \in keys : KeyOf(rows[f[k]]) = k }
    IN  { { rows[f[k]] : k \in keys } : f \in pick }

\* The materialisations of the plan df_cleaned (lines 58-64).
df_cleaned(raw) == dropDuplicates(Prepared(raw))

\* ------------------------------------------------------ step 6: enrichment
EnrichRow(r) ==
    r @@ [Year |-> year(r.InvoiceDate), Month |-> month(r.InvoiceDate),
          Quarter |-> quarter(r.InvoiceDate), DayName |-> DayName(r.InvoiceDate),
          Hour |-> hour(r.InvoiceDate), MonthName |-> MonthName(r.InvoiceDate)]

\* An enrichment that loses the rows without a timestamp.
df_enrichedDated(c) ==
    { EnrichRow(r) : r \in { x \in c : ~IsNull(x.InvoiceDate) } }

\* The plan df_enriched applied to one materialisation of df_cleaned.
df_enriched(c) == { EnrichRow(r) : r \in c }

\* ------------------------------------------------------ step 7: analytics
RECURSIVE SumOver(_, _)
\* sum(col) over the rows S, none of which holds NULL in col.
SumOver(S, col) ==
    IF S = {} THEN 0
    ELSE LET r == CHOOSE x \in S : TRUE
         IN  Val(r[col]) + SumOver(S \ {r}, col)

\* sum(col): NULLs are skipped, and the sum of no value is NULL.
sum(S, col) ==
    LET vals == { r \in S : ~IsNull(r[col]) }
    IN  IF vals = {} THEN None ELSE Some(SumOver(vals, col))

\* max(col): NULLs are skipped, and the max of no value is NULL.
max(S, col) ==
    LET vals == { Val(r[col]) : r \in { x \in S : ~IsNull(x[col]) } }
    IN  IF vals = {} THEN None
        ELSE Some(CHOOSE v \in vals : \A w \in vals : w <= v)

\* count(col): the rows whose col is not NULL.
count(S, col) == Cardinality({ r \in S : ~IsNull(r[col]) })

\* countDistinct(col): the distinct values of col that are not NULL.
countDistinct(S, col) == Cardinality({ r[col] : r \in S } \ {None})

\* df.select(col).distinct().count(): NULL counts as one value.
distinctCount(S, col) == Cardinality({ r[col] : r \in S })

\* max_date = df_cleaned.agg(max("InvoiceDate")).collect()[0][0]
MaxDateOf(c) == max(c, "InvoiceDate")

\* A customer summary that counts invoices, not rows.
customer_rfmInvoices(c, maxd) ==
    { LET g    == { r \in c : r.CustomerID = k }
          last == max(g, "InvoiceDate")
      IN  [CustomerID |-> k, LastPurchaseDate |-> last,
           Frequency |-> countDistinct(g, "Invoice"),
           MonetaryValue |-> sum(g, "TotalAmount"),
           Recency |-> datediff(maxd, last)] :
      k \in { r.CustomerID : r \in c } }

\* customer_rfm (lines 83-89) over one materialisation of df_cleaned, with
\* the literal max_date collected earlier.
customer_rfm(c, maxd) ==
    { LET g    == { r \in c : r.CustomerID = k }
          last == max(g, "InvoiceDate")
      IN  [CustomerID |-> k, LastPurchaseDate |-> last,
           Frequency |-> count(g, "Invoice"),
           MonetaryValue |-> sum(g, "TotalAmount"),
           Recency |-> datediff(maxd, last)] :
      k \in { r.CustomerID : r \in c } }

\* product_analysis (lines 93-98)
product_analysis(c) ==
    { LET g == { r \in c : <<r.StockCode, r.Description>> = k }
      IN  [StockCode |-> k[1], Description |-> k[2],
           TotalQuantitySold |-> sum(g, "Quantity"),
           TotalRevenue |-> sum(g, "TotalAmount"),
           UniqueCustomers |-> countDistinct(g, "CustomerID")] :
      k \in { <<r.StockCode, r.Description>> : r \in c } }

\* country_sales (lines 102-107)
country_sales(c) ==
    { LET g == { r \in c : r.Country = k }
      IN  [Country |-> k, TotalRevenue |-> sum(g, "TotalAmount"),
           TotalOrders |-> count(g, "Invoice"),
           UniqueCustomers |-> countDistinct(g, "CustomerID")] :
      k \in { r.Country : r \in c } }

\* monthly_trends (lines 111-115), over the enriched rows e.
monthly_trends(e) ==
    { LET g == { r \in e : <<r.fiscal_year, r.Year, r.Month, r.MonthName>> = k }
      IN  [fiscal_year |-> k[1], Year |-> k[2], Month |-> k[3],
           MonthName |-> k[4],
           MonthlyRevenue |-> sum(g, "TotalAmount"),
           MonthlyOrders |-> count(g, "Invoice")] :
      k \in { <<r.fiscal_year, r.Year, r.Month, r.MonthName>> : r \in e } }

\* ------------------------------------------------------------- the script
\* The six outputs, in the order step 8 writes them.
Outputs == <<"retail_cleaned", "retail_enriched", "customer_rfm",
             "product_performance", "country_sales", "monthly_trends">>
OutputSet == { Outputs[i] : i \in 1..Len(Outputs) }

\* The four scalars of step 9.
ScalarSet == {"total_revenue", "total_orders", "unique_customers",
              "unique_products"}

\* The script's statements in program order; pc names the next one to run.
Program == <<"create_session", "download", "read_excel", "to_spark", "clean",
             "enrich", "analytics">> \o Outputs
           \o <<"summary", "report", "stop", "done">>

StepNo(s) == CHOOSE i \in 1..Len(Program) : Program[i] = s
After(s) == Program[StepNo(s) + 1]

\* The statements that call the cluster, the object store or pandas, any
\* of which may raise.
MayRaise == { "create_session", "download", "read_excel", "to_spark", "clean",
              "analytics", "summary" } \cup OutputSet

\* The table a write job computes from the materialisation c it evaluates.
TableOf(o, c, maxd) ==
    CASE o = "retail_cleaned"      -> c
      [] o = "retail_enriched"     -> df_enriched(c)
      [] o = "customer_rfm"        -> customer_rfm(c, maxd)
      [] o = "product_performance" -> product_analysis(c)
      [] o = "country_sales"       -> country_sales(c)
      [] o = "monthly_trends"      -> monthly_trends(df_enriched(c))

\* The scalar a summary job computes from the materialisation c.
ScalarOf(k, c) ==
    CASE k = "total_revenue"    -> sum(c, "TotalAmount")
      [] k = "total_orders"     -> Some(distinctCount(c, "Invoice"))
      [] k = "unique_customers" -> Some(distinctCount(c, "CustomerID"))
      [] k = "unique_products"  -> Some(distinctCount(c, "StockCode"))

NoOutputs == [o \in OutputSet |-> {}]
NoSummary == [k \in ScalarSet |-> None]

Init ==
    /\ pc = "create_session"
    /\ failedAt = None
    /\ spark = "none"
    /\ bucket \in Workbooks
    /\ excel_data = None
    /\ df_combined = <<>>
    /\ df_raw = <<>>
    /\ evalC = {}
    /\ max_date = None
    /\ store = NoOutputs
    /\ written = {}
    /\ summary = NoSummary
    /\ reported = FALSE
    /\ run = 1
    /\ prev = None

\* A failed write that is caught and dropped, the script going on to the
\* next statement; any other exception still ends the script.
RaiseSwallowed(step) ==
    IF step \in OutputSet
    THEN /\ pc' = After(step)
         /\ UNCHANGED <<failedAt, excel_data, df_combined, df_raw, evalC,
                        max_date, summary>>
    ELSE /\ pc' = "aborted"
         /\ failedAt' = Some(step)
         /\ excel_data' = None
         /\ df_combined' = <<>>
         /\ df_raw' = <<>>
         /\ evalC' = {}
         /\ max_date' = None
         /\ summary' = NoSummary

\* An exception nothing catches: the script ends where it is, and the
\* process takes its variables with it.
Raise(step) ==
    /\ pc' = "aborted"
    /\ failedAt' = Some(step)
    /\ excel_data' = None
    /\ df_combined' = <<>>
    /\ df_raw' = <<>>
    /\ evalC' = {}
    /\ max_date' = None
    /\ summary' = NoSummary

\* Lines 13-30
CreateSession ==
    /\ pc = "create_session"
    /\ spark' = "active"
    /\ pc' = After(pc)
    /\ UNCHANGED <<failedAt, bucket, excel_data, df_combined, df_raw, evalC,
                   max_date, store, written, summary, reported, run, prev>>

\* Lines 32-39
Download ==
    /\ pc = "download"
    /\ excel_data' = Some(bucket)
    /\ pc' = After(pc)
    /\ UNCHANGED <<failedAt, spark, bucket, df_combined, df_raw, evalC,
                   max_date, store, written, summary, reported, run, prev>>

\* Lines 41-49
ReadExcel ==
    /\ pc = "read_excel"
    /\ df_combined' = Combine(Val(excel_data))
    /\ pc' = After(pc)
    /\ UNCHANGED <<failedAt, spark, bucket, excel_data, df_raw, evalC,
                   max_date, store, written, summary, reported, run, prev>>

\* Lines 51-54
ToSpark ==
    /\ pc = "to_spark"
    /\ df_raw' = df_combined
    /\ pc' = After(pc)
    /\ UNCHANGED <<failedAt, spark, bucket, excel_data, df_combined, evalC,
                   max_date, store, written, summary, reported, run, prev>>

\* Lines 56-65: the plan df_cleaned, and the job that counts its rows.
\* evalC records the materialisation the job evaluated.
Clean ==
    /\ pc = "clean"
    /\ \E c \in df_cleaned(df_raw) : evalC' = c
    /\ pc' = After(pc)
    /\ UNCHANGED <<failedAt, spark, bucket, excel_data, df_combined, df_raw,
                   max_date, store, written, summary, reported, run, prev>>

\* Lines 67-76: the plan df_enriched; no job runs.
Enrich ==
    /\ pc = "enrich"
    /\ pc' = After(pc)
    /\ UNCHANGED <<failedAt, spark, bucket, excel_data, df_combined, df_raw,
                   evalC, max_date, store, written, summary, reported, run,
                   prev>>

\* Lines 78-116: the job that collects max_date, then the four plans.
Analytics ==
    /\ pc = "analytics"
    /\ \E c \in df_cleaned(df_raw) :
          /\ evalC' = c
          /\ max_date' = MaxDateOf(c)
    /\ pc' = After(pc)
    /\ UNCHANGED <<failedAt, spark, bucket, excel_data, df_combined, df_raw,
                   store, written, summary, reported, run, prev>>

\* Lines 118-137: one write job, mode("overwrite").
Write ==
    /\ pc \in OutputSet
    /\ \E c \in df_cleaned(df_raw) :
          /\ evalC' = c
          /\ store' = [store EXCEPT ![pc] = TableOf(pc, c, max_date)]
    /\ written' = written \cup {pc}
    /\ pc' = After(pc)
    /\ UNCHANGED <<failedAt, spark, bucket, excel_data, df_combined, df_raw,
                   max_date, summary, reported, run, prev>>

\* Lines 141-144: four jobs, each evaluating df_cleaned for itself.
Summary ==
    /\ pc = "summary"
    /\ \E f \in [ScalarSet -> df_cleaned(df_raw)] :
          summary' = [k \in ScalarSet |-> ScalarOf(k, f[k])]
    /\ pc' = After(pc)
    /\ UNCHANGED <<failedAt, spark, bucket, excel_data, df_combined, df_raw,
                   evalC, max_date, store, written, reported, run, prev>>

\* Lines 146-155: f"{total_revenue:,.2f}" raises TypeError on None, the sum
\* of an empty table; otherwise the success banner is printed.
Report ==
    /\ pc = "report"
    /\ IF IsNull(summary["total_revenue"])
       THEN Raise(pc) /\ UNCHANGED reported
       ELSE /\ reported' = TRUE
            /\ pc' = After(pc)
            /\ UNCHANGED <<failedAt, excel_data, df_combined, df_raw, evalC,
                           max_date, summary>>
    /\ UNCHANGED <<spark, bucket, store, written, run, prev>>

\* Line 157; the process then exits.
Stop ==
    /\ pc = "stop"
    /\ spark' = "stopped"
    /\ pc' = After(pc)
    /\ excel_data' = None
    /\ df_combined' = <<>>
    /\ df_raw' = <<>>
    /\ evalC' = {}
    /\ max_date' = None
    /\ UNCHANGED <<failedAt, bucket, store, written, summary, reported, run,
                   prev>>

\* A collaborator call raises.  An overwrite that fails may already have
\* removed what the path held.
Fail ==
    /\ pc \in MayRaise
    /\ Raise(pc)
    /\ IF pc \in OutputSet
       THEN \E t \in {store[pc], {}} : store' = [store EXCEPT ![pc] = t]
       ELSE UNCHANGED store
    /\ UNCHANGED <<spark, bucket, written, reported, run, prev>>

\* The operator launches the script again on the same workbook: a new
\* process, the object store as the last run left it.  prev records the
\* outputs of the run that completed.
Rerun ==
    /\ pc = "done"
    /\ run < MaxRuns
    /\ run' = run + 1
    /\ prev' = Some(store)
    /\ pc' = "create_session"
    /\ spark' = "none"
    /\ written' = {}
    /\ summary' = NoSummary
    /\ reported' = FALSE
    /\ UNCHANGED <<failedAt, bucket, excel_data, df_combined, df_raw, evalC,
                   max_date, store>>

Next ==
    \/ CreateSession
    \/ Download
    \/ ReadExcel
    \/ ToSpark
    \/ Clean
    \/ Enrich
    \/ Analytics
    \/ Write
    \/ Summary
    \/ Report
    \/ Stop
    \/ Fail

Spec == Init /\ [][Next]_vars

NextRerun == Next \/ Rerun

SpecRerun == Init /\ [][NextRerun]_vars

\* ------------------------------------------------------------------ claims
\* The script's process is alive and df_cleaned has been evaluated at least
\* once, so evalC is the materialisation the latest job of steps 5-8 saw.
Evaluated == pc \notin {"aborted", "done"} /\ StepNo(pc) > StepNo("clean")

\* The raw rows (by position in df_raw) that pass dropna and both filters.
Passing ==
    { i \in 1..Len(df_raw) :
        /\ ~IsNull(df_raw[i].Invoice) /\ ~IsNull(df_raw[i].StockCode)
        /\ ~IsNull(df_raw[i].Quantity) /\ ~IsNull(df_raw[i].Price)
        /\ Val(df_raw[i].Quantity) > 0 /\ Val(df_raw[i].Price) > 0 }

\* The deduplication key of raw row i, its date parsed.
RawKey(i) == <<df_raw[i].Invoice, df_raw[i].StockCode,
               to_timestamp(df_raw[i].InvoiceDate)>>

CleanRowOK(r) ==
    /\ ~IsNull(r.Invoice) /\ ~IsNull(r.StockCode)
    /\ ~IsNull(r.Quantity) /\ ~IsNull(r.Price)
    /\ Val(r.Quantity) > 0 /\ Val(r.Price) > 0

UniqueKeys(T) ==
    \A r1 \in T, r2 \in T :
        (r1.Invoice = r2.Invoice /\ r1.StockCode = r2.StockCode
            /\ r1.InvoiceDate = r2.InvoiceDate) => r1 = r2

\* C1: every row of every materialisation of the cleaned table, and of the
\* written retail_cleaned output, has non-null Invoice, StockCode, Quantity
\* and Price, Quantity > 0 and Price > 0, and no two rows share an
\* (Invoice, StockCode, InvoiceDate) key.
C1_CleanedRowsValidAndUnique ==
    \A T \in {evalC, store["retail_cleaned"]} :
        (\A r \in T : CleanRowOK(r)) /\ UniqueKeys(T)

\* C1 witness: retail_cleaned has just been written from a workbook that
\* held a return, a free item and two lines sharing a key, and it is not
\* empty.
C1_Witness ==
    /\ pc = "retail_enriched"
    /\ store["retail_cleaned"] # {}
    /\ \E i \in 1..Len(df_raw) :
          ~IsNull(df_raw[i].Quantity) /\ Val(df_raw[i].Quantity) <= 0
    /\ \E i \in Passing, j \in Passing :
          i # j /\ RawKey(i) = RawKey(j) /\ df_raw[i] # df_raw[j]

\* C2 (as claimed): a row survives Cleaning only if its invoice date parses,
\* so no row of a cleaned table lacks a timestamp.
C2_UnparseableDateExcluded ==
    \A T \in {evalC, store["retail_cleaned"]} :
        \A r \in T : ~IsNull(r.InvoiceDate)

\* C3: for every key of a raw row passing the null and positivity filters
\* the materialisation holds exactly one row with that key; that row is one
\* of the colliding raw rows, whole (its Quantity, Price, customer, country,
\* description and fiscal period), and its TotalAmount is Quantity x Price
\* rounded half-up to two decimals.
C3_OneWholeSurvivorPerKey ==
    Evaluated =>
        \A i \in Passing :
            LET hits == { r \in evalC : <<r.Invoice, r.StockCode,
                                          r.InvoiceDate>> = RawKey(i) }
            IN  /\ Cardinality(hits) = 1
                /\ \A r \in hits :
                      /\ \E j \in Passing :
                            /\ RawKey(j) = RawKey(i)
                            /\ r.Quantity = df_raw[j].Quantity
                            /\ r.Price = df_raw[j].Price
                            /\ r.CustomerID = df_raw[j].CustomerID
                            /\ r.Country = df_raw[j].Country
                            /\ r.Description = df_raw[j].Description
                            /\ r.fiscal_year = df_raw[j].fiscal_year
                      /\ LET x == Val(r.Quantity) * Val(r.Price)
                             t == Val(r.TotalAmount)
                         IN  10 * t <= x + 5 /\ x + 5 < 10 * t + 10

\* C3 witness: a materialisation in which a key carried by two raw rows with
\* different quantities has its one survivor, and a total was rounded up.
C3_Witness ==
    /\ Evaluated
    /\ \E i \in Passing, j \in Passing :
          /\ RawKey(i) = RawKey(j)
          /\ df_raw[i].Quantity # df_raw[j].Quantity
          /\ \E r \in evalC : r.Invoice = df_raw[i].Invoice
                                /\ r.Quantity = df_raw[j].Quantity
    /\ \E r \in evalC :
          Val(r.Quantity) * Val(r.Price) < 10 * Val(r.TotalAmount)

RECURSIVE Total(_, _)
\* The sum of column col over the rows of table T.
Total(T, col) ==
    IF T = {} THEN 0
    ELSE LET r == CHOOSE x \in T : TRUE
         IN  (IF IsNull(r[col]) THEN 0 ELSE Val(r[col])) + Total(T \ {r}, col)

\* C4 (as claimed): once the run has reported, the country revenues, the
\* customer monetary values and the reported total revenue add up to the
\* same amount.
C4_TotalsReconcile ==
    reported =>
        /\ Total(store["country_sales"], "TotalRevenue")
             = Total(store["customer_rfm"], "MonetaryValue")
        /\ Total(store["customer_rfm"], "MonetaryValue")
             = Val(summary["total_revenue"])

\* C5 (as claimed): a second completed run on the same workbook leaves the
\* cleaned table and the four aggregate tables exactly as the first did.
C5_RerunIdentical ==
    (pc = "done" /\ ~IsNull(prev)) =>
        \A o \in OutputSet \ {"retail_enriched"} : store[o] = Val(prev)[o]

\* The outputs whose write comes before statement s in the script.
WrittenBefore(s) == { o \in OutputSet : StepNo(o) < StepNo(s) }

\* C6: success is reported only with all six outputs written; a run that
\* raised has reported no success, has run no later statement (its writes
\* are exactly those before the failing statement, the session was not
\* stopped) and stays ended.
C6_SuccessOnlyAfterSixWrites ==
    /\ reported => (written = OutputSet /\ pc \in {"stop", "done"})
    /\ pc = "aborted" =>
          /\ ~reported
          /\ ~IsNull(failedAt)
          /\ written = WrittenBefore(Val(failedAt))
          /\ spark # "stopped"
          /\ ~ENABLED Next

\* C6 witness: the third write raised after two outputs were written.
C6_Witness ==
    /\ pc = "aborted"
    /\ failedAt = Some("customer_rfm")
    /\ written = {"retail_cleaned", "retail_enriched"}
    /\ store["retail_cleaned"] # {}

NewColumns == {"Year", "Month", "Quarter", "DayName", "Hour", "MonthName"}

\* An enriched row without the six columns enrichment adds.
Base(e) == [f \in (DOMAIN e) \ NewColumns |-> e[f]]

\* C7: the enriched table written from a materialisation of the cleaned
\* table has as many rows; dropping the six new columns maps its rows
\* one-to-one onto the cleaned rows; and the six columns are the same for
\* rows with the same InvoiceDate.
C7_EnrichmentOneToOne ==
    pc = "customer_rfm" =>
        LET E == store["retail_enriched"]
        IN  /\ Cardinality(E) = Cardinality(evalC)
            /\ \A e \in E :
                  /\ Base(e) \in evalC
                  /\ DOMAIN e = (DOMAIN Base(e)) \cup NewColumns
                  /\ NewColumns \cap DOMAIN Base(e) = {}
            /\ \A r \in evalC : Cardinality({ e \in E : Base(e) = r }) = 1
            /\ \A e1 \in E, e2 \in E :
                  e1.InvoiceDate = e2.InvoiceDate =>
                      \A f \in NewColumns : e1[f] = e2[f]

\* C7 witness: an enriched table of rows from two different months and a
\* row without a timestamp.
C7_Witness ==
    /\ pc = "customer_rfm"
    /\ \E e1 \in store["retail_enriched"], e2 \in store["retail_enriched"] :
          /\ e1.Month = Some(12) /\ e1.Quarter = Some(4) /\ e1.Hour = Some(8)
          /\ e1.DayName = Some("Wednesday")
          /\ e2.MonthName = Some("January") /\ e2.Year = Some(2011)
    /\ \E e \in store["retail_enriched"] : IsNull(e.InvoiceDate)

\* C8: with max_date the one maximum InvoiceDate of the cleaned table,
\* every customer group whose LastPurchaseDate is that timestamp has
\* Recency 0, every group with a last purchase has the whole days from it
\* to max_date as Recency, and no group has a negative Recency.  (A group
\* of rows without any timestamp has no last purchase and a NULL Recency.)
C8_RecencyAgainstGlobalMax ==
    pc = "product_performance" =>
        /\ \A r \in evalC :
              ~IsNull(r.InvoiceDate) =>
                  ~IsNull(max_date) /\ Val(r.InvoiceDate) <= Val(max_date)
        /\ \A g \in store["customer_rfm"] :
              /\ (~IsNull(max_date) /\ g.LastPurchaseDate = max_date)
                    => g.Recency = Some(0)
              /\ ~IsNull(g.LastPurchaseDate) =>
                    /\ ~IsNull(g.Recency)
                    /\ Val(g.Recency) = (Val(max_date) \div 24)
                                          - (Val(g.LastPurchaseDate) \div 24)
              /\ ~IsNull(g.Recency) => Val(g.Recency) >= 0

\* C8 witness: one customer bought last at the global maximum (Recency 0)
\* and another 45 days earlier.
C8_Witness ==
    /\ pc = "product_performance"
    /\ \E g \in store["customer_rfm"] :
          g.LastPurchaseDate = max_date /\ g.Recency = Some(0)
    /\ \E g \in store["customer_rfm"] : g.Recency = Some(45)

\* C9: the customer summary written from a materialisation of the cleaned
\* table has exactly one row per customer identifier occurring in it, NULL
\* being one identifier; Frequency is the number of that customer's rows
\* and MonetaryValue the sum of their TotalAmount.
C9_CustomerSummaryPerCustomer ==
    pc = "product_performance" =>
        LET R == store["customer_rfm"]
            ids == { r.CustomerID : r \in evalC }
        IN  /\ { g.CustomerID : g \in R } = ids
            /\ Cardinality(R) = Cardinality(ids)
            /\ \A g \in R :
                  LET rows == { r \in evalC : r.CustomerID = g.CustomerID }
                  IN  /\ g.Frequency = Cardinality(rows)
                      /\ g.MonetaryValue = Some(Total(rows, "TotalAmount"))

\* C9 witness: a summary with the anonymous group and a customer with two
\* rows of one invoice.
C9_Witness ==
    /\ pc = "product_performance"
    /\ \E g \in store["customer_rfm"] : IsNull(g.CustomerID)
    /\ \E g \in store["customer_rfm"] :
          /\ g.Frequency = 2
          /\ Cardinality({ r.Invoice : r \in { x \in evalC :
                             x.CustomerID = g.CustomerID } }) = 1

\* C10 (as claimed): however the run ends, the session it acquired has
\* been released.
C10_SessionReleasedOnEveryExit ==
    pc \in {"done", "aborted"} => spark # "active"

====
